---- MODULE Spec2Model ----
(***************************************************************************)
(* Model of tenv's loadEnv (src/src/index.ts): the merge of the ambient    *)
(* environment with an optional dotenv file, the per-field coercion and    *)
(* validation pipeline, and the error strategy.                            *)
(*                                                                         *)
(* JavaScript strings are sequences of one-character strings, so that      *)
(* Number(), JSON.parse(), String() and RegExp.prototype.test() are        *)
(* computed character by character.  JavaScript values are records of one  *)
(* shape (tag t, number n, string s, array a).                             *)
(***************************************************************************)
EXTENDS Integers, Sequences, FiniteSets, TLC

----------------------------------------------------------------------------
(* JavaScript values *)

Str(s)    == [t |-> "string",    n |-> 0, s |-> s,    a |-> <<>>]
Num(n)    == [t |-> "number",    n |-> n, s |-> <<>>, a |-> <<>>]
Bool(b)   == [t |-> "boolean",   n |-> IF b THEN 1 ELSE 0, s |-> <<>>, a |-> <<>>]
Arr(a)    == [t |-> "array",     n |-> 0, s |-> <<>>, a |-> a]
Undefined == [t |-> "undefined", n |-> 0, s |-> <<>>, a |-> <<>>]
NaN       == [t |-> "nan",       n |-> 0, s |-> <<>>, a |-> <<>>]
Null      == [t |-> "null",      n |-> 0, s |-> <<>>, a |-> <<>>]
\* the outcome of a JSON.parse that throws SyntaxError
SyntaxError == [t |-> "SyntaxError", n |-> 0, s |-> <<>>, a |-> <<>>]

----------------------------------------------------------------------------
(* Strings *)

DigitChars == <<"0", "1", "2", "3", "4", "5", "6", "7", "8", "9">>

IsDigit(c) == \E d \in 1..Len(DigitChars) : DigitChars[d] = c

DigitVal(c) == (CHOOSE d \in 1..Len(DigitChars) : DigitChars[d] = c) - 1

IsSpace(c) == c = " "

AllDigits(s) == \A p \in 1..Len(s) : IsDigit(s[p])

RECURSIVE DecimalValue(_)
DecimalValue(s) ==
    IF s = <<>> THEN 0
    ELSE 10 * DecimalValue(SubSeq(s, 1, Len(s) - 1)) + DigitVal(s[Len(s)])

RECURSIVE TrimStart(_)
TrimStart(s) ==
    IF s # <<>> /\ IsSpace(Head(s)) THEN TrimStart(Tail(s)) ELSE s

RECURSIVE TrimEnd(_)
TrimEnd(s) ==
    IF s # <<>> /\ IsSpace(s[Len(s)]) THEN TrimEnd(SubSeq(s, 1, Len(s) - 1)) ELSE s

Trim(s) == TrimEnd(TrimStart(s))

\* Number(<string>): surrounding white space is stripped, the empty string
\* is 0, a run of decimal digits is its value, anything else is NaN.  Exact
\* for strings without sign, fraction, exponent, radix prefix or "Infinity".
StringToNumber(s) ==
    LET u == Trim(s)
    IN  IF u = <<>> THEN Num(0)
        ELSE IF AllDigits(u) THEN Num(DecimalValue(u))
        ELSE NaN

RECURSIVE NatToString(_)
NatToString(n) ==
    IF n < 10 THEN <<DigitChars[n + 1]>>
    ELSE NatToString(n \div 10) \o <<DigitChars[(n % 10) + 1]>>

\* String(<value>): Array.prototype.toString joins the elements with ","
\* and renders null and undefined elements as the empty string.
RECURSIVE StringOf(_)
RECURSIVE JoinElements(_, _)
JoinElements(a, sep) ==
    IF a = <<>> THEN <<>>
    ELSE LET h == IF Head(a).t \in {"undefined", "null"} THEN <<>> ELSE StringOf(Head(a))
         IN  IF Len(a) = 1 THEN h ELSE h \o sep \o JoinElements(Tail(a), sep)

StringOf(v) ==
    CASE v.t = "string"    -> v.s
      [] v.t = "number"    -> NatToString(v.n)
      [] v.t = "boolean"   -> IF v.n = 1 THEN <<"t", "r", "u", "e">> ELSE <<"f", "a", "l", "s", "e">>
      [] v.t = "array"     -> JoinElements(v.a, <<",">>)
      [] v.t = "nan"       -> <<"N", "a", "N">>
      [] v.t = "null"      -> <<"n", "u", "l", "l">>
      [] v.t = "undefined" -> <<"u", "n", "d", "e", "f", "i", "n", "e", "d">>

\* Number(<value>)
ToNumber(v) ==
    CASE v.t = "string"    -> StringToNumber(v.s)
      [] v.t = "number"    -> v
      [] v.t = "boolean"   -> Num(v.n)
      [] v.t = "array"     -> StringToNumber(StringOf(v))
      [] v.t = "nan"       -> NaN
      [] v.t = "null"      -> Num(0)
      [] v.t = "undefined" -> NaN

----------------------------------------------------------------------------
(* JSON.parse, for texts made of white space, unsigned integers, the       *)
(* literals true, false and null, and arrays of those.                     *)

StartsWith(s, p) == Len(s) >= Len(p) /\ SubSeq(s, 1, Len(p)) = p

Drop(s, k) == SubSeq(s, k + 1, Len(s))

RECURSIVE DigitRun(_)
DigitRun(s) == IF s # <<>> /\ IsDigit(Head(s)) THEN 1 + DigitRun(Tail(s)) ELSE 0

JFail == [ok |-> FALSE, v |-> Undefined, rest |-> <<>>]

RECURSIVE JsonValue(_)
RECURSIVE JsonElements(_, _)
JsonElements(s, acc) ==
    LET r == JsonValue(s)
    IN  IF ~r.ok THEN JFail
        ELSE LET u == TrimStart(r.rest)
             IN  IF u = <<>> THEN JFail
                 ELSE IF Head(u) = "]" THEN [ok |-> TRUE, v |-> Arr(Append(acc, r.v)), rest |-> Tail(u)]
                 ELSE IF Head(u) = "," THEN JsonElements(Tail(u), Append(acc, r.v))
                 ELSE JFail

JsonValue(s) ==
    LET u == TrimStart(s)
    IN  IF u = <<>> THEN JFail
        ELSE IF Head(u) = "[" THEN
            LET w == TrimStart(Tail(u))
            IN  IF w # <<>> /\ Head(w) = "]"
                THEN [ok |-> TRUE, v |-> Arr(<<>>), rest |-> Tail(w)]
                ELSE JsonElements(Tail(u), <<>>)
        ELSE IF IsDigit(Head(u)) THEN
            LET k == DigitRun(u)
            IN  IF Head(u) = "0" /\ k > 1 THEN JFail
                ELSE [ok |-> TRUE, v |-> Num(DecimalValue(SubSeq(u, 1, k))), rest |-> Drop(u, k)]
        ELSE IF StartsWith(u, <<"t", "r", "u", "e">>) THEN [ok |-> TRUE, v |-> Bool(TRUE), rest |-> Drop(u, 4)]
        ELSE IF StartsWith(u, <<"f", "a", "l", "s", "e">>) THEN [ok |-> TRUE, v |-> Bool(FALSE), rest |-> Drop(u, 5)]
        ELSE IF StartsWith(u, <<"n", "u", "l", "l">>) THEN [ok |-> TRUE, v |-> Null, rest |-> Drop(u, 4)]
        ELSE JFail

JSONParse(v) ==
    LET r == JsonValue(StringOf(v))
    IN  IF r.ok /\ TrimStart(r.rest) = <<>> THEN r.v ELSE SyntaxError

----------------------------------------------------------------------------
(* parseValue (index.ts 120-138) *)

parseValue(type, value) ==
    IF type = "string" THEN value
    ELSE IF type = "number" THEN
        LET num == ToNumber(value)
        IN  IF num = NaN THEN Undefined ELSE num
    ELSE IF type = "boolean" THEN
        IF value = Str(<<"t", "r", "u", "e">>) THEN Bool(TRUE)
        ELSE IF value = Str(<<"f", "a", "l", "s", "e">>) THEN Bool(FALSE)
        ELSE Undefined
    ELSE IF type = "array" THEN
        LET arr == JSONParse(value)
        IN  IF arr.t = "array" THEN arr ELSE Undefined
    ELSE Undefined

----------------------------------------------------------------------------
(* RegExp.prototype.test for a literal pattern, with the g flag's lastIndex *)

NoRegex == [id |-> "none", source |-> <<>>, global |-> FALSE]

\* 0-based offsets at or after start where the literal occurs in s
MatchOffsets(source, s, start) ==
    {p \in start..(Len(s) - Len(source)) : SubSeq(s, p + 1, p + Len(source)) = source}

Min(S) == CHOOSE m \in S : \A o \in S : m <= o

\* regex.test(value) with the regex's lastIndex at li: the match result and
\* the lastIndex the call leaves behind
RegExpTest(regex, li, value) ==
    LET s     == StringOf(value)
        start == IF regex.global THEN li ELSE 0
        offs  == IF start > Len(s) THEN {} ELSE MatchOffsets(regex.source, s, start)
    IN  IF offs = {}
        THEN [matched |-> FALSE, lastIndex |-> IF regex.global THEN 0 ELSE li]
        ELSE [matched |-> TRUE,
              lastIndex |-> IF regex.global THEN Min(offs) + Len(regex.source) ELSE li]

----------------------------------------------------------------------------
(* Schema entries (index.ts 7-26) *)

NoValidation == "none"

\* the predicates a schema may carry: v => v > 0, and v => false
Validate(validation, value) ==
    CASE validation = "positive" -> LET num == ToNumber(value) IN num.t = "number" /\ num.n > 0
      [] validation = "reject"   -> FALSE
      [] OTHER                   -> TRUE

SchemaEntry(type) ==
    [type |-> type, required |-> FALSE, default |-> Undefined,
     hasAllowedValues |-> FALSE, allowedValues |-> <<>>,
     regex |-> NoRegex, validation |-> NoValidation]

\* allowedValues.includes(parsedValue): SameValueZero on primitives
Includes(allowedValues, parsedValue) ==
    \E p \in 1..Len(allowedValues) :
        allowedValues[p] = parsedValue /\ parsedValue.t \in {"string", "number", "boolean"}

----------------------------------------------------------------------------
(* for (const key in options.schema): integer-like keys first, in ascending *)
(* numeric order, then the other keys in the order they were declared.     *)

IsArrayIndex(key) == key # <<>> /\ AllDigits(key) /\ NatToString(DecimalValue(key)) = key

RECURSIVE Ascending(_)
Ascending(fields) ==
    IF fields = {} THEN <<>>
    ELSE LET f == CHOOSE g \in fields :
                      \A h \in fields : DecimalValue(g.key) <= DecimalValue(h.key)
         IN  <<f>> \o Ascending(fields \ {f})

IndexField(f) == IsArrayIndex(f.key)

OtherField(f) == ~IsArrayIndex(f.key)

ForIn(schema) ==
    Ascending({schema[p] : p \in {q \in 1..Len(schema) : IndexField(schema[q])}})
        \o SelectSeq(schema, OtherField)

----------------------------------------------------------------------------
(* Inputs: keys, raw strings, files, schemas *)

KeyB == <<"B">>
KeyA == <<"A">>
Key1 == <<"1">>
Keys == {KeyB, KeyA, Key1}

S_empty == <<>>
S_1     == <<"1">>
S_a     == <<"a">>
S_true  == <<"t", "r", "u", "e">>
S_list  == <<"[", "1", "]">>

\* a key nobody defines
Absent == [t |-> "absent", n |-> 0, s |-> <<>>, a |-> <<>>]

Unset == [k \in Keys |-> Undefined]

\* process.env as the program may find it: every value is a string
AmbientEnvs ==
    {[k \in Keys |-> IF k = KeyB THEN b ELSE IF k = KeyA THEN a ELSE o] :
        b \in {Undefined, Str(S_empty), Str(S_1), Str(S_a), Str(S_true), Str(S_list)},
        a \in {Undefined, Str(S_a), Str(S_1)},
        o \in {Undefined, Str(S_1)}}

NoPath == "undefined"
DefaultPath == ".env"
AltPath == "alt.env"
Paths == {DefaultPath, AltPath}

NoFile == [exists |-> FALSE, vars |-> Unset]
File(vars) == [exists |-> TRUE, vars |-> vars]

\* what dotenv parses out of the files on disk (values come out trimmed)
FileSystems ==
    {[p \in Paths |-> IF p = DefaultPath THEN d ELSE o] :
        d \in {NoFile, File([Unset EXCEPT ![KeyB] = Str(S_a), ![Key1] = Str(S_a)])},
        o \in {NoFile, File([Unset EXCEPT ![KeyB] = Str(S_true), ![KeyA] = Str(S_1)])}}

RegexA  == [id |-> "/a/",  source |-> S_a, global |-> FALSE]
RegexAg == [id |-> "/a/g", source |-> S_a, global |-> TRUE]
RegexIds == {RegexA.id, RegexAg.id}

Field(key, entry) == [key |-> key, entry |-> entry]

Schemas ==
    { \* two required fields, the integer-like key declared last
      <<Field(KeyB, [SchemaEntry("string") EXCEPT !.required = TRUE]),
        Field(Key1, [SchemaEntry("number") EXCEPT !.required = TRUE])>>,
      \* the README's PORT and DEBUG
      <<Field(KeyB, [SchemaEntry("number") EXCEPT !.required = TRUE, !.default = Num(3000)]),
        Field(KeyA, [SchemaEntry("boolean") EXCEPT !.default = Bool(FALSE)])>>,
      \* the README's ALLOWED_ORIGINS
      <<Field(KeyB, [SchemaEntry("array") EXCEPT !.default = Arr(<<Str(S_a)>>)]),
        Field(KeyA, SchemaEntry("string"))>>,
      \* defaults that the field's own checks reject
      <<Field(KeyB, [SchemaEntry("string") EXCEPT !.hasAllowedValues = TRUE,
                         !.allowedValues = <<Str(S_a), Str(S_true)>>, !.default = Str(S_1)]),
        Field(KeyA, [SchemaEntry("number") EXCEPT !.validation = "positive", !.default = Num(0)])>>,
      <<Field(KeyA, [SchemaEntry("string") EXCEPT !.regex = RegexA, !.default = Str(S_1)]),
        Field(KeyB, [SchemaEntry("boolean") EXCEPT !.required = TRUE])>>,
      \* a pattern with the g flag
      <<Field(KeyB, [SchemaEntry("string") EXCEPT !.regex = RegexAg])>>,
      \* three fields, one of each remaining kind
      <<Field(KeyB, [SchemaEntry("boolean") EXCEPT !.default = Bool(TRUE)]),
        Field(KeyA, [SchemaEntry("number") EXCEPT !.hasAllowedValues = TRUE,
                         !.allowedValues = <<Num(1), Num(10)>>]),
        Field(Key1, [SchemaEntry("string") EXCEPT !.validation = "reject", !.default = Str(S_a)])>> }

NoStrategy == "undefined"
Strategies == {"throw", "log", "default", "silent", NoStrategy}

LoadEnvOptions ==
    [schema : Schemas, dotEnvPath : {NoPath, AltPath}, errorStrategy : Strategies]

NoOptions == [schema |-> <<>>, dotEnvPath |-> NoPath, errorStrategy |-> NoStrategy]

MaxCalls == 2

----------------------------------------------------------------------------
(* The steps of loadEnv (index.ts 60-118) *)

\* options.dotEnvPath || '.env'
EnvPath(opts) == IF opts.dotEnvPath = NoPath THEN DefaultPath ELSE opts.dotEnvPath

\* dotenv.config with override: the file's value replaces the ambient one
DotenvConfigOverride(env, file) ==
    [k \in Keys |-> IF file.vars[k] # Undefined THEN file.vars[k] ELSE env[k]]

\* dotenv.config({ path }): every variable of the file that process.env does
\* not define yet is written into process.env
DotenvConfig(env, file) ==
    [k \in Keys |-> IF env[k] # Undefined THEN env[k] ELSE file.vars[k]]

\* the error strings, by template
Message(kind, key, type, value, allowed) ==
    [kind |-> kind, key |-> key, type |-> type, value |-> value, allowed |-> allowed]

NoError        == Message("", <<>>, "", <<>>, <<>>)
Newline        == Message("\n", <<>>, "", <<>>, <<>>)
ErrRequired(key)    == Message("is required but not defined", key, "", <<>>, <<>>)
ErrParse(key, type) == Message("cannot be parsed as type", key, type, <<>>, <<>>)
ErrAllowed(key, parsedValue, allowedValues) ==
    Message("has invalid value", key, "", StringOf(parsedValue),
            JoinElements(allowedValues, <<",", " ">>))
ErrPattern(key) == Message("does not match the required pattern", key, "", <<>>, <<>>)
ErrCustom(key)  == Message("Custom validation failed", key, "", <<>>, <<>>)

\* rawValue === undefined ? entry.default : rawValue
ValueOrDefault(rawValue, entry) ==
    IF rawValue = Undefined THEN entry.default ELSE rawValue

\* a loop body that takes a default as it is, without coercion or checks
EvalFieldTrustingDefault(key, entry, rawValue, li) ==
    LET value       == ValueOrDefault(rawValue, entry)
        parsedValue == parseValue(entry.type, value)
        tested      == RegExpTest(entry.regex, li, parsedValue)
        Out(error, assigned, v, index) ==
            [error |-> error, assigned |-> assigned, value |-> v, lastIndex |-> index]
    IN  IF value = Undefined /\ entry.required THEN Out(ErrRequired(key), FALSE, Undefined, li)
        ELSE IF value = Undefined THEN Out(NoError, TRUE, value, li)
        ELSE IF rawValue = Undefined THEN Out(NoError, TRUE, value, li)
        ELSE IF parsedValue = Undefined THEN Out(ErrParse(key, entry.type), FALSE, Undefined, li)
        ELSE IF entry.hasAllowedValues /\ ~Includes(entry.allowedValues, parsedValue)
            THEN Out(ErrAllowed(key, parsedValue, entry.allowedValues), FALSE, Undefined, li)
        ELSE IF entry.regex # NoRegex /\ ~tested.matched
            THEN Out(ErrPattern(key), FALSE, Undefined, tested.lastIndex)
        ELSE LET index == IF entry.regex # NoRegex THEN tested.lastIndex ELSE li
             IN  IF entry.validation # NoValidation /\ ~Validate(entry.validation, parsedValue)
                 THEN Out(ErrCustom(key), FALSE, Undefined, index)
                 ELSE Out(NoError, TRUE, parsedValue, index)

\* one pass of the loop body for a field: the error pushed (or NoError),
\* whether result[key] is assigned and to what, and the regex's lastIndex
EvalField(key, entry, rawValue, li) ==
    LET value       == ValueOrDefault(rawValue, entry)
        parsedValue == parseValue(entry.type, value)
        tested      == RegExpTest(entry.regex, li, parsedValue)
        Out(error, assigned, v, index) ==
            [error |-> error, assigned |-> assigned, value |-> v, lastIndex |-> index]
    IN  IF value = Undefined /\ entry.required THEN Out(ErrRequired(key), FALSE, Undefined, li)
        ELSE IF value = Undefined THEN Out(NoError, TRUE, value, li)
        ELSE IF parsedValue = Undefined THEN Out(ErrParse(key, entry.type), FALSE, Undefined, li)
        ELSE IF entry.hasAllowedValues /\ ~Includes(entry.allowedValues, parsedValue)
            THEN Out(ErrAllowed(key, parsedValue, entry.allowedValues), FALSE, Undefined, li)
        ELSE IF entry.regex # NoRegex /\ ~tested.matched
            THEN Out(ErrPattern(key), FALSE, Undefined, tested.lastIndex)
        ELSE LET index == IF entry.regex # NoRegex THEN tested.lastIndex ELSE li
             IN  IF entry.validation # NoValidation /\ ~Validate(entry.validation, parsedValue)
                 THEN Out(ErrCustom(key), FALSE, Undefined, index)
                 ELSE Out(NoError, TRUE, parsedValue, index)

\* a loop that breaks at the first failing field
NextFieldBreaking(i, n, failed) == IF failed THEN n + 1 ELSE i + 1

\* where the loop goes after the field at position i of n: every branch of
\* the body ends in continue or falls off the end
NextField(i, n, failed) == i + 1

\* errors.join('\n')
RECURSIVE JoinLines(_)
JoinLines(errs) ==
    IF errs = <<>> THEN <<>>
    ELSE IF Len(errs) = 1 THEN errs
    ELSE <<Head(errs), Newline>> \o JoinLines(Tail(errs))

\* options.errorStrategy || 'throw'
StrategyOrThrow(opts) ==
    IF opts.errorStrategy = NoStrategy THEN "throw" ELSE opts.errorStrategy

\* a handler that throws the first error alone
handleErrorsFirstOnly(errs, strategy) ==
    IF Len(errs) = 0 THEN [throws |-> FALSE, message |-> <<>>, warn |-> <<>>]
    ELSE IF strategy = "throw" THEN [throws |-> TRUE, message |-> <<Head(errs)>>, warn |-> <<>>]
    ELSE IF strategy = "log" THEN [throws |-> FALSE, message |-> <<>>, warn |-> <<JoinLines(errs)>>]
    ELSE [throws |-> FALSE, message |-> <<>>, warn |-> <<>>]

\* a handler that throws for every strategy but 'log'
handleErrorsThrowByDefault(errs, strategy) ==
    IF Len(errs) = 0 THEN [throws |-> FALSE, message |-> <<>>, warn |-> <<>>]
    ELSE IF strategy = "log" THEN [throws |-> FALSE, message |-> <<>>, warn |-> <<JoinLines(errs)>>]
    ELSE [throws |-> TRUE, message |-> JoinLines(errs), warn |-> <<>>]

\* handleErrors (index.ts 140-150): whether it throws, with what message,
\* and what it passes to console.warn
handleErrors(errs, strategy) ==
    LET message == JoinLines(errs)
    IN  IF Len(errs) = 0 THEN [throws |-> FALSE, message |-> <<>>, warn |-> <<>>]
        ELSE IF strategy = "throw" THEN [throws |-> TRUE, message |-> message, warn |-> <<>>]
        ELSE IF strategy = "log" THEN [throws |-> FALSE, message |-> <<>>, warn |-> <<message>>]
        ELSE [throws |-> FALSE, message |-> <<>>, warn |-> <<>>]

----------------------------------------------------------------------------
(* State *)

VARIABLES
    processEnv,  \* process.env
    fs,          \* the dotenv files on disk, by path
    lastIndex,   \* lastIndex of each RegExp object the schemas hold
    pc,          \* "idle", "loop" (inside loadEnv), "done" (loadEnv has left)
    options,     \* the argument of the call in progress or just finished
    i,           \* position of the loop in ForIn(options.schema)
    result,      \* const result
    errors,      \* const errors
    outcome,     \* how the call ended: the returned object or the thrown message
    warned,      \* what the call passed to console.warn
    rawUsed,     \* history: rawValue of each field the loop has visited
    liUsed,      \* history: lastIndex of the field's regex when the loop got there
    env0,        \* history: process.env when the call began
    envInit,     \* history: process.env before the first call
    prev,        \* history: the preceding call, when this one repeats it
    ncalls,      \* number of calls begun
    probe        \* a direct application of parseValue

vars == <<processEnv, fs, lastIndex, pc, options, i, result, errors, outcome,
          warned, rawUsed, liUsed, env0, envInit, prev, ncalls, probe>>

Nothing == [k \in Keys |-> Absent]

NoOutcome == [kind |-> "none", value |-> Nothing, message |-> <<>>]

NoPrev == [set |-> FALSE, options |-> NoOptions, env0 |-> Unset,
           result |-> Nothing, errors |-> <<>>, outcome |-> NoOutcome]

NoProbe == [type |-> "", value |-> Undefined, parsed |-> Undefined]

Init ==
    /\ processEnv \in AmbientEnvs
    /\ fs \in FileSystems
    /\ lastIndex = [r \in RegexIds |-> 0]
    /\ pc = "idle"
    /\ options = NoOptions
    /\ i = 0
    /\ result = Nothing
    /\ errors = <<>>
    /\ outcome = NoOutcome
    /\ warned = <<>>
    /\ rawUsed = Nothing
    /\ liUsed = [k \in Keys |-> 0]
    /\ env0 = processEnv
    /\ envInit = processEnv
    /\ prev = NoPrev
    /\ ncalls = 0
    /\ probe = NoProbe

\* index.ts 61-69: resolve the path, let dotenv load the file when it
\* exists, start with an empty result and an empty error list
Enter(opts) ==
    /\ ncalls < MaxCalls
    /\ ncalls' = ncalls + 1
    /\ options' = opts
    /\ env0' = processEnv
    /\ processEnv' = IF fs[EnvPath(opts)].exists
                     THEN DotenvConfig(processEnv, fs[EnvPath(opts)])
                     ELSE processEnv
    /\ result' = Nothing
    /\ errors' = <<>>
    /\ rawUsed' = Nothing
    /\ liUsed' = [k \in Keys |-> 0]
    /\ outcome' = NoOutcome
    /\ warned' = <<>>
    /\ i' = 1
    /\ pc' = "loop"
    /\ UNCHANGED <<fs, lastIndex, envInit, probe>>

\* loadEnv(opts), called by the program
LoadEnvBegin(opts) ==
    /\ pc \in {"idle", "done"}
    /\ Enter(opts)
    /\ prev' = NoPrev

\* loadEnv called again with the very same options object
LoadEnvAgain ==
    /\ pc = "done"
    /\ Enter(options)
    /\ prev' = [set |-> TRUE, options |-> options, env0 |-> env0,
                result |-> result, errors |-> errors, outcome |-> outcome]

\* index.ts 71-113: one iteration of the for-in loop
LoadEnvField ==
    /\ pc = "loop"
    /\ i <= Len(ForIn(options.schema))
    /\ LET key      == ForIn(options.schema)[i].key
           entry    == ForIn(options.schema)[i].entry
           rawValue == processEnv[key]
           li       == IF entry.regex # NoRegex THEN lastIndex[entry.regex.id] ELSE 0
           out      == EvalField(key, entry, rawValue, li)
       IN  /\ rawUsed' = [rawUsed EXCEPT ![key] = rawValue]
           /\ liUsed' = [liUsed EXCEPT ![key] = li]
           /\ errors' = IF out.error # NoError THEN Append(errors, out.error) ELSE errors
           /\ result' = IF out.assigned THEN [result EXCEPT ![key] = out.value] ELSE result
           /\ lastIndex' = IF entry.regex # NoRegex
                           THEN [lastIndex EXCEPT ![entry.regex.id] = out.lastIndex]
                           ELSE lastIndex
           /\ i' = NextField(i, Len(ForIn(options.schema)), out.error # NoError)
    /\ UNCHANGED <<processEnv, fs, pc, options, outcome, warned, env0, envInit,
                   prev, ncalls, probe>>

\* index.ts 115-117: handleErrors, then return result
LoadEnvReturn ==
    /\ pc = "loop"
    /\ i > Len(ForIn(options.schema))
    /\ LET h == handleErrors(errors, StrategyOrThrow(options))
       IN  /\ outcome' = IF h.throws
                         THEN [kind |-> "thrown", value |-> Nothing, message |-> h.message]
                         ELSE [kind |-> "returned", value |-> result, message |-> <<>>]
           /\ warned' = h.warn
    /\ pc' = "done"
    /\ UNCHANGED <<processEnv, fs, lastIndex, options, i, result, errors, rawUsed,
                   liUsed, env0, envInit, prev, ncalls, probe>>

Next ==
    \/ \E opts \in LoadEnvOptions : LoadEnvBegin(opts)
    \/ LoadEnvAgain
    \/ LoadEnvField
    \/ LoadEnvReturn

Spec == Init /\ [][Next]_vars

----------------------------------------------------------------------------
(* parseValue on its own, over every short string of an alphabet *)

MaxLen == 3

CoerceAlphabet == {"0", "1", " ", "a", "N"}

CoerceStrings ==
    UNION {[1..n -> CoerceAlphabet] : n \in 0..MaxLen}
        \cup {S_true, <<"f", "a", "l", "s", "e">>, <<"T", "r", "u", "e">>,
              <<"F", "A", "L", "S", "E">>, <<"t", "r", "u", "e", " ">>, S_list}

Types == {"string", "number", "boolean", "array"}

InitCoerce ==
    /\ processEnv = Unset
    /\ fs = [p \in Paths |-> NoFile]
    /\ lastIndex = [r \in RegexIds |-> 0]
    /\ pc = "idle"
    /\ options = NoOptions
    /\ i = 0
    /\ result = Nothing
    /\ errors = <<>>
    /\ outcome = NoOutcome
    /\ warned = <<>>
    /\ rawUsed = Nothing
    /\ liUsed = [k \in Keys |-> 0]
    /\ env0 = processEnv
    /\ envInit = processEnv
    /\ prev = NoPrev
    /\ ncalls = 0
    /\ probe = NoProbe

Coerce(type, s) ==
    /\ probe = NoProbe
    /\ probe' = [type |-> type, value |-> Str(s), parsed |-> parseValue(type, Str(s))]
    /\ UNCHANGED <<processEnv, fs, lastIndex, pc, options, i, result, errors, outcome,
                   warned, rawUsed, liUsed, env0, envInit, prev, ncalls>>

NextCoerce == \E type \in Types, s \in CoerceStrings : Coerce(type, s)

SpecCoerce == InitCoerce /\ [][NextCoerce]_vars

----------------------------------------------------------------------------
(* Properties *)

InCall == pc \in {"loop", "done"}

SchemaKeys == {options.schema[p].key : p \in 1..Len(options.schema)}

\* position of a key in the schema as the caller wrote it
Declared(k) == CHOOSE p \in 1..Len(options.schema) : options.schema[p].key = k

EntryOf(k) == options.schema[Declared(k)].entry

\* the fields the loop of the current call has been through
Visited == {k \in SchemaKeys : rawUsed[k] # Absent}

\* the file the current call names
CallFile == fs[EnvPath(options)]

ErrorsOf(k) == {p \in 1..Len(errors) : errors[p].key = k}

\* C1: the raw value of every field is the ambient value when the ambient
\* environment (as the call found it) defines the key, otherwise the value
\* the call's file gives it when that file exists, otherwise absent; with
\* no file the call uses ambient values only and raises only for field
\* errors.
C1_RawPrecedence ==
    InCall =>
        /\ \A k \in Visited :
              rawUsed[k] = IF env0[k] # Undefined THEN env0[k]
                           ELSE IF CallFile.exists THEN CallFile.vars[k]
                           ELSE Undefined
        /\ ~CallFile.exists =>
              /\ \A k \in Visited : rawUsed[k] = env0[k]
              /\ outcome.kind = "thrown" => errors # <<>>

\* a finished call whose file overlaps the ambient environment on one key
\* and supplies another one alone
C1_Witness ==
    /\ pc = "done"
    /\ CallFile.exists
    /\ \E k \in Visited :
          /\ env0[k] # Undefined /\ CallFile.vars[k] # Undefined
          /\ env0[k] # CallFile.vars[k] /\ rawUsed[k] = env0[k]
    /\ \E k \in Visited :
          env0[k] = Undefined /\ CallFile.vars[k] # Undefined /\ rawUsed[k] = CallFile.vars[k]

\* C2: a loadEnv call leaves process.env as it found it, whether it returns
\* or raises.
C2_EnvUnchanged == InCall => processEnv = env0

\* the field declares no allowedValues, no pattern and no predicate
Unchecked(entry) ==
    ~entry.hasAllowedValues /\ entry.regex = NoRegex /\ entry.validation = NoValidation

\* C3: a field whose default has the declared type and which neither the
\* ambient environment nor the file defines ends up in the result with
\* exactly the default, and records no error.  Stated for the fields that
\* declare no further check, where only the coercion can stand in the way.
C3_DefaultSubstituted ==
    InCall =>
        \A k \in Visited :
            ( /\ Unchecked(EntryOf(k))
              /\ EntryOf(k).default.t = EntryOf(k).type
              /\ env0[k] = Undefined
              /\ (~CallFile.exists \/ CallFile.vars[k] = Undefined) )
            => result[k] = EntryOf(k).default /\ ErrorsOf(k) = {}

----------------------------------------------------------------------------
(* Orders on the keys of the schema *)

\* k1 is written before k2 in the schema
DeclaredBefore(k1, k2) == Declared(k1) < Declared(k2)

\* for-in reaches k1 before k2
EnumeratedBefore(k1, k2) ==
    \/ IsArrayIndex(k1) /\ IsArrayIndex(k2) /\ DecimalValue(k1) < DecimalValue(k2)
    \/ IsArrayIndex(k1) /\ ~IsArrayIndex(k2)
    \/ ~IsArrayIndex(k1) /\ ~IsArrayIndex(k2) /\ DeclaredBefore(k1, k2)

\* message is the lines of errs, one after the other, with a newline between
\* two of them
IsJoinOf(message, errs) ==
    /\ Len(message) = IF errs = <<>> THEN 0 ELSE 2 * Len(errs) - 1
    /\ \A p \in 1..Len(errs) : message[2 * p - 1] = errs[p]
    /\ \A p \in 1..(Len(errs) - 1) : message[2 * p] = Newline

Throwing == StrategyOrThrow(options) = "throw"

\* how a call under 'throw' ends, apart from the order of the lines
ThrowContract ==
    IF errors # <<>>
    THEN /\ outcome.kind = "thrown"
         /\ outcome.value = Nothing
         /\ IsJoinOf(outcome.message, errors)
         /\ warned = <<>>
    ELSE /\ outcome.kind = "returned"
         /\ outcome.value = result

----------------------------------------------------------------------------

\* the value the field's raw value or default coerces to
Coerced(k) ==
    LET value == ValueOrDefault(rawUsed[k], EntryOf(k))
    IN  IF value = Undefined THEN Undefined ELSE parseValue(EntryOf(k).type, value)

Lenient == StrategyOrThrow(options) \in {"log", "default", "silent"}

----------------------------------------------------------------------------
(* The ways a field fails, each stated on its own *)

Present(k) == ValueOrDefault(rawUsed[k], EntryOf(k)) # Undefined

RequiredMissing(k) == ~Present(k) /\ EntryOf(k).required

CoercionFails(k) == Present(k) /\ Coerced(k) = Undefined

AllowedValuesFail(k) ==
    /\ Present(k) /\ Coerced(k) # Undefined
    /\ EntryOf(k).hasAllowedValues
    /\ \A p \in 1..Len(EntryOf(k).allowedValues) : EntryOf(k).allowedValues[p] # Coerced(k)

PatternFails(k) ==
    /\ Present(k) /\ Coerced(k) # Undefined /\ ~AllowedValuesFail(k)
    /\ EntryOf(k).regex # NoRegex
    /\ ~RegExpTest(EntryOf(k).regex, liUsed[k], Coerced(k)).matched

CustomFails(k) ==
    /\ Present(k) /\ Coerced(k) # Undefined /\ ~AllowedValuesFail(k) /\ ~PatternFails(k)
    /\ EntryOf(k).validation # NoValidation
    /\ ~Validate(EntryOf(k).validation, Coerced(k))

Fails(k) ==
    RequiredMissing(k) \/ CoercionFails(k) \/ AllowedValuesFail(k) \/ PatternFails(k) \/ CustomFails(k)

\* the kind of message a failing field gets
KindOf(k) ==
    CASE RequiredMissing(k)   -> ErrRequired(k).kind
      [] CoercionFails(k)     -> ErrParse(k, "").kind
      [] AllowedValuesFail(k) -> ErrAllowed(k, Undefined, <<>>).kind
      [] PatternFails(k)      -> ErrPattern(k).kind
      [] CustomFails(k)       -> ErrCustom(k).kind
      [] OTHER                -> NoError.kind

\* every field has been through the loop, a failing field has exactly one
\* message, of its kind, and a passing field has none
OneErrorPerFailure ==
    /\ Visited = SchemaKeys
    /\ \A k \in SchemaKeys :
          IF Fails(k)
          THEN Cardinality(ErrorsOf(k)) = 1 /\ \A p \in ErrorsOf(k) : errors[p].kind = KindOf(k)
          ELSE ErrorsOf(k) = {}
    /\ \A p \in 1..Len(errors) : errors[p].key \in SchemaKeys

----------------------------------------------------------------------------

\* C7: a call that repeats the preceding one (same options object, same
\* ambient environment, same file) ends with the same resolved
\* configuration and the same error list.
C7_Idempotent ==
    (pc = "done" /\ prev.set /\ prev.options = options /\ prev.env0 = env0) =>
        /\ result = prev.result
        /\ errors = prev.errors

\* C8: whatever raw value a call uses for a key is the value the ambient
\* environment had for it before the first call, or the value the file
\* named in this very call gives it.
C8_RawFromScratch ==
    InCall =>
        \A k \in Visited :
            \/ rawUsed[k] = envInit[k]
            \/ CallFile.exists /\ rawUsed[k] = CallFile.vars[k]

----------------------------------------------------------------------------

\* the field got its default: no raw value, and a default that coerces
DefaultTaken(k) ==
    /\ rawUsed[k] = Undefined
    /\ EntryOf(k).default # Undefined
    /\ Coerced(k) # Undefined

----------------------------------------------------------------------------

\* s is a decimal literal, white space around it allowed
IsNumericLiteral(s) ==
    \E lo, hi \in 1..Len(s) :
        /\ lo <= hi
        /\ \A p \in 1..Len(s) : IF lo <= p /\ p <= hi THEN IsDigit(s[p]) ELSE IsSpace(s[p])

NumericValue(s) == DecimalValue(SelectSeq(s, IsDigit))

\* C10: coercion succeeds exactly on the literals of the type: 'number'
\* gives the number for a numeric literal and fails for any other string,
\* the empty and the blank ones included; 'boolean' gives true for "true",
\* false for "false" and fails otherwise; 'string' gives the string back.
C10_CoercionExact ==
    probe # NoProbe =>
        CASE probe.type = "number" ->
                IF IsNumericLiteral(probe.value.s)
                THEN probe.parsed = Num(NumericValue(probe.value.s))
                ELSE probe.parsed = Undefined
          [] probe.type = "boolean" ->
                IF probe.value.s = <<"t", "r", "u", "e">> THEN probe.parsed = Bool(TRUE)
                ELSE IF probe.value.s = <<"f", "a", "l", "s", "e">> THEN probe.parsed = Bool(FALSE)
                ELSE probe.parsed = Undefined
          [] probe.type = "string" -> probe.parsed = probe.value
          [] OTHER -> TRUE

====
